---- MODULE Spec2Model ----
(***************************************************************************)
(* Model of takeAChestnut/auto_updater: the two scripts src/iptv-test.py   *)
(* and src/process_iptv.py.                                                *)
(*                                                                         *)
(* Text is modelled at the character level: a Python str is a sequence of  *)
(* Unicode code points (naturals), so that comparison of strings is the    *)
(* code-point comparison Python performs and parsing/formatting are real   *)
(* computations on characters.                                             *)
(***************************************************************************)
EXTENDS Integers, Sequences, FiniteSets, TLC

(***************************************************************************)
(* String literals of the source, as code-point sequences.                 *)
(***************************************************************************)
\* "CCTV"
CCTV == <<67, 67, 84, 86>>
\* "CCVT"
CCVT == <<67, 67, 86, 84>>
\* "CCTV5"
CCTV5 == <<67, 67, 84, 86, 53>>
\* "CCTV-5"
CCTV_5 == <<67, 67, 84, 86, 45, 53>>
\* the high-definition marker, U+9AD8 U+6E05
GaoQing == <<39640, 28165>>
\* the satellite suffix U+536B U+89C6 and its traditional form U+536B U+8996
WeiShi == <<21355, 35270>>
WeiShiTrad == <<21355, 35222>>
\* "#EXTM3U"
EXTM3U == <<35, 69, 88, 84, 77, 51, 85>>
\* "#EXTINF:"
EXTINF == <<35, 69, 88, 84, 73, 78, 70, 58>>
\* '#EXTINF:-1 tvg-id="'
EXTINF_TVG_ID == <<35, 69, 88, 84, 73, 78, 70, 58, 45, 49, 32, 116, 118, 103, 45, 105, 100, 61, 34>>
\* 'tvg-id="'
TVG_ID_ATTR == <<116, 118, 103, 45, 105, 100, 61, 34>>
\* 'tvg-logo="'
TVG_LOGO_ATTR == <<116, 118, 103, 45, 108, 111, 103, 111, 61, 34>>
\* 'group-title="'
GROUP_TITLE_ATTR == <<103, 114, 111, 117, 112, 45, 116, 105, 116, 108, 101, 61, 34>>
\* ' tvg-logo="'
SP_TVG_LOGO_ATTR == <<32>> \o TVG_LOGO_ATTR
\* ' group-title="'
SP_GROUP_TITLE_ATTR == <<32>> \o GROUP_TITLE_ATTR
\* "https://gcore.jsdelivr.net/gh/taksssss/tv/icon/"
base_url == <<104, 116, 116, 112, 115, 58, 47, 47, 103, 99, 111, 114, 101, 46, 106, 115, 100,
              101, 108, 105, 118, 114, 46, 110, 101, 116, 47, 103, 104, 47, 116, 97, 107, 115,
              115, 115, 115, 115, 47, 116, 118, 47, 105, 99, 111, 110, 47>>
\* ".png"
DotPng == <<46, 112, 110, 103>>
\* the characters of the class [<>:"/\\|?*]
UnsafeChars == {60, 62, 58, 34, 47, 92, 124, 63, 42}
\* preserve_suffixes, in list order
preserve_suffixes == << <<26032, 38395>>, <<20307, 32946>>, <<32508, 33402>>,
                        <<30005, 24433>>, <<23569, 20799>>, <<38899, 20048>>,
                        <<25103, 26354>>, <<20892, 19994>>, <<31185, 25945>> >>
\* remove_suffixes, in list order
remove_suffixes == << <<45, 32508, 21512>>, <<32508, 21512>>, <<72, 68>>, <<85, 72, 68>>,
                      <<70, 72, 68>>, <<36229, 28165>>, <<26631, 28165>>, <<32>> >>

(***************************************************************************)
(* Python str operations.                                                  *)
(***************************************************************************)
\* characters str.strip() removes and the regex class \s matches
WhiteSpace == {9, 10, 11, 12, 13, 28, 29, 30, 31, 32, 133, 160}
\* characters the regex class \d matches (the ASCII digits of the model's alphabet)
Digits == 48..57

Min(S) == CHOOSE m \in S : \A k \in S : m <= k

StartsWith(s, p) == Len(s) >= Len(p) /\ SubSeq(s, 1, Len(p)) = p
EndsWith(s, p) == Len(s) >= Len(p) /\ SubSeq(s, Len(s) - Len(p) + 1, Len(s)) = p
\* str.find, 1-based; 0 when absent
Find(s, p) ==
  LET I == {i \in 1..(Len(s) - Len(p) + 1) : SubSeq(s, i, i + Len(p) - 1) = p}
  IN IF I = {} THEN 0 ELSE Min(I)
\* p in s
Contains(s, p) == Find(s, p) # 0
\* s[i:] for a 1-based i
From(s, i) == SubSeq(s, i, Len(s))

RECURSIVE Replace(_, _, _)
\* str.replace(old, new): left to right, non-overlapping, a single pass
Replace(s, old, new) ==
  IF Len(s) < Len(old) THEN s
  ELSE IF StartsWith(s, old) THEN new \o Replace(From(s, Len(old) + 1), old, new)
  ELSE <<s[1]>> \o Replace(Tail(s), old, new)

\* str.upper() on the model's alphabet (ASCII letters; other characters unchanged)
Upper(s) == [i \in 1..Len(s) |-> IF s[i] \in 97..122 THEN s[i] - 32 ELSE s[i]]

RECURSIVE LStrip(_)
LStrip(s) == IF s # <<>> /\ s[1] \in WhiteSpace THEN LStrip(Tail(s)) ELSE s
RECURSIVE RStrip(_)
RStrip(s) ==
  IF s # <<>> /\ s[Len(s)] \in WhiteSpace THEN RStrip(SubSeq(s, 1, Len(s) - 1)) ELSE s
\* str.strip()
Strip(s) == LStrip(RStrip(s))

\* re.sub(r'[<>:"/\\|?*]', '', s)
RemoveUnsafe(s) == SelectSeq(s, LAMBDA c : c \notin UnsafeChars)

RECURSIVE StrLess(_, _)
\* a < b on str: code-point lexicographic, a proper prefix is smaller
StrLess(a, b) ==
  IF b = <<>> THEN FALSE
  ELSE IF a = <<>> THEN TRUE
  ELSE IF a[1] # b[1] THEN a[1] < b[1]
  ELSE StrLess(Tail(a), Tail(b))

RECURSIVE Split(_, _)
\* str.split(sep) for a one-character separator
Split(s, sep) ==
  LET i == Find(s, <<sep>>)
  IN IF i = 0 THEN <<s>>
     ELSE <<SubSeq(s, 1, i - 1)>> \o Split(From(s, i + 1), sep)

RECURSIVE Join(_, _)
\* sep.join(parts)
Join(parts, sep) ==
  IF parts = <<>> THEN <<>>
  ELSE IF Len(parts) = 1 THEN parts[1]
  ELSE parts[1] \o sep \o Join(Tail(parts), sep)

RECURSIVE DigitRun(_)
\* the length of the longest prefix of s made of digits (greedy \d+)
DigitRun(s) == IF s # <<>> /\ s[1] \in Digits THEN 1 + DigitRun(Tail(s)) ELSE 0

RECURSIVE ParseInt(_)
\* int(s) for a non-empty string of ASCII digits
ParseInt(s) ==
  IF s = <<>> THEN 0 ELSE 10 * ParseInt(SubSeq(s, 1, Len(s) - 1)) + (s[Len(s)] - 48)

(***************************************************************************)
(* clean_cctv_name, clean_tvg_id, clean_logo_url, extract_cctv_number      *)
(***************************************************************************)
\* re.match(r'^(CCTV)[-\s]?(\d+)(.*)$', cleaned, re.IGNORECASE): the record
\* [ok, num, suffix] of the match (groups 2 and 3)
CctvMatch(cleaned) ==
  LET NoMatch == [ok |-> FALSE, num |-> <<>>, suffix |-> <<>>]
  IN IF ~(Len(cleaned) >= 5 /\ Upper(SubSeq(cleaned, 1, 4)) = CCTV) THEN NoMatch
     ELSE LET start == IF cleaned[5] \in Digits THEN 5
                       ELSE IF /\ cleaned[5] \in ({45} \cup WhiteSpace)
                               /\ Len(cleaned) >= 6
                               /\ cleaned[6] \in Digits THEN 6
                       ELSE 0
          IN IF start = 0 THEN NoMatch
             ELSE LET n == DigitRun(From(cleaned, start))
                      rest == From(cleaned, start + n)
                      \* '.' does not match a newline; '$' also matches before a final one
                      body == IF rest # <<>> /\ rest[Len(rest)] = 10
                              THEN SubSeq(rest, 1, Len(rest) - 1) ELSE rest
                  IN IF \E i \in 1..Len(body) : body[i] = 10 THEN NoMatch
                     ELSE [ok |-> TRUE,
                           num |-> SubSeq(cleaned, start, start + n - 1),
                           suffix |-> body]

RECURSIVE FirstPreserved(_, _)
\* the for-loop over preserve_suffixes from index k: the first ps with
\* suffix.endswith(ps) or f"-{ps}" in suffix, "" when none
FirstPreserved(suffix, k) ==
  IF k > Len(preserve_suffixes) THEN <<>>
  ELSE IF EndsWith(suffix, preserve_suffixes[k])
          \/ Contains(suffix, <<45>> \o preserve_suffixes[k])
       THEN preserve_suffixes[k]
  ELSE FirstPreserved(suffix, k + 1)

\* clean_cctv_name that looks for a preserved suffix before the plus marker
clean_cctv_name_suffix_first(name, name_type) ==
  IF name = <<>> THEN name
  ELSE
    LET cleaned0 == Replace(name, GaoQing, <<>>)
        m == CctvMatch(cleaned0)
        suffix == Strip(m.suffix)
        preserved_suffix == FirstPreserved(suffix, 1)
    IN IF Contains(Upper(cleaned0), CCTV) /\ m.ok
       THEN IF preserved_suffix # <<>>
            THEN CCTV \o m.num \o <<45>> \o preserved_suffix
            ELSE IF EndsWith(suffix, <<43>>) \/ EndsWith(suffix, <<65291>>)
                 THEN CCTV \o m.num \o <<43>>
                 ELSE CCTV \o m.num
       ELSE cleaned0

clean_cctv_name(name, name_type) ==
  IF name = <<>> THEN name
  ELSE
    LET original_name == name
        cleaned0 == Replace(name, GaoQing, <<>>)
        m == CctvMatch(cleaned0)
        suffix == Strip(m.suffix)
        preserved_suffix == FirstPreserved(suffix, 1)
        cleaned ==
          IF Contains(Upper(cleaned0), CCTV) /\ m.ok
          THEN IF EndsWith(suffix, <<43>>) \/ EndsWith(suffix, <<65291>>)
               THEN CCTV \o m.num \o <<43>>
               ELSE IF preserved_suffix # <<>>
                    THEN CCTV \o m.num \o <<45>> \o preserved_suffix
                    ELSE CCTV \o m.num
          ELSE cleaned0
    IN IF name_type = "logo" /\ cleaned # original_name
       THEN RemoveUnsafe(cleaned) ELSE cleaned

clean_tvg_id(tvg_id) ==
  LET corrected_id == IF Contains(Upper(tvg_id), CCVT)
                      THEN Replace(Upper(tvg_id), CCVT, CCTV)
                      ELSE tvg_id
  IN clean_cctv_name(corrected_id, "tvg_id")

clean_logo_url(logo_url, tvg_id) ==
  IF tvg_id = <<>> THEN logo_url
  ELSE base_url \o clean_tvg_id(tvg_id) \o DotPng

\* re.search(r'CCTV[-\s]?(\d+)', tvg_id): the digits of the leftmost match, <<>> when none
CctvNumberSearch(tvg_id) ==
  LET DigitsAt(i) ==
        IF i + 4 <= Len(tvg_id) /\ tvg_id[i + 4] \in Digits THEN i + 4
        ELSE IF /\ i + 5 <= Len(tvg_id)
                /\ tvg_id[i + 4] \in ({45} \cup WhiteSpace)
                /\ tvg_id[i + 5] \in Digits THEN i + 5
        ELSE 0
      I == {i \in 1..(Len(tvg_id) - 3) : SubSeq(tvg_id, i, i + 3) = CCTV /\ DigitsAt(i) # 0}
  IN IF I = {} THEN <<>>
     ELSE LET d == DigitsAt(Min(I))
          IN SubSeq(tvg_id, d, d + DigitRun(From(tvg_id, d)) - 1)

\* extract_cctv_number that never finds a number
extract_cctv_number_unparsed(tvg_id) == IF ~StartsWith(tvg_id, CCTV) THEN 9999 ELSE 0

extract_cctv_number(tvg_id) ==
  IF ~StartsWith(tvg_id, CCTV) THEN 9999
  ELSE IF CctvNumberSearch(tvg_id) # <<>> THEN ParseInt(CctvNumberSearch(tvg_id))
  ELSE 0

(***************************************************************************)
(* process_m3u_content                                                     *)
(***************************************************************************)
\* content.strip().split('\n')
ContentLines(content) == Split(Strip(content), 10)

\* re.search(attr + r'([^"]*)"', line): [ok, value], value being group 1
AttrSearch(line, attr) ==
  LET i == Find(line, attr)
      rest == From(line, i + Len(attr))
      j == Find(rest, <<34>>)
  IN IF i = 0 \/ j = 0 THEN [ok |-> FALSE, value |-> <<>>]
     ELSE [ok |-> TRUE, value |-> SubSeq(rest, 1, j - 1)]

\* m.group(1) if m else ""
AttrValue(line, attr) ==
  LET m == AttrSearch(line, attr) IN IF m.ok THEN m.value ELSE <<>>

\* extinf_line.split(',')[-1].strip() if ',' in extinf_line else ""
ChannelName(extinf_line) ==
  IF Contains(extinf_line, <<44>>)
  THEN LET parts == Split(extinf_line, 44) IN Strip(parts[Len(parts)])
  ELSE <<>>

\* the display-name rule of the parse loop
CleanName(channel_name) ==
  IF channel_name # <<>>
  THEN IF Contains(Upper(channel_name), CCVT)
       THEN clean_cctv_name(Replace(Upper(channel_name), CCVT, CCTV), "channel_name")
       ELSE clean_cctv_name(channel_name, "channel_name")
  ELSE <<>>

\* the group-label rule of the parse loop
CleanGroup(group_title) ==
  IF group_title # <<>> THEN Replace(group_title, GaoQing, <<>>) ELSE <<>>

\* the body of the parse loop for one metadata line and the line after it:
\* the tuple (clean_id, new_line) appended to entries
MakeEntry(extinf_line, next_line) ==
  LET stream_url == Strip(next_line)
      tvg_id == AttrValue(extinf_line, TVG_ID_ATTR)
      tvg_logo == AttrValue(extinf_line, TVG_LOGO_ATTR)
      group_title == AttrValue(extinf_line, GROUP_TITLE_ATTR)
      channel_name == ChannelName(extinf_line)
      clean_id == clean_tvg_id(tvg_id)
      clean_name == CleanName(channel_name)
      clean_logo == clean_logo_url(tvg_logo, clean_id)
      clean_group == CleanGroup(group_title)
      new_line == EXTINF_TVG_ID \o clean_id \o <<34>>
                  \o (IF clean_logo # <<>> THEN SP_TVG_LOGO_ATTR \o clean_logo \o <<34>> ELSE <<>>)
                  \o (IF clean_group # <<>> THEN SP_GROUP_TITLE_ATTR \o clean_group \o <<34>> ELSE <<>>)
                  \o <<44>> \o clean_name \o <<10>> \o stream_url
  IN <<clean_id, new_line>>

RECURSIVE ParseLoop(_, _, _)
\* the while loop over lines from the 1-based index i, with the entries so far
ParseLoop(lines, i, entries) ==
  IF i > Len(lines) THEN entries
  ELSE IF StartsWith(lines[i], EXTINF)
       THEN IF i + 1 <= Len(lines) /\ ~StartsWith(lines[i + 1], <<35>>)
            THEN ParseLoop(lines, i + 2, Append(entries, MakeEntry(lines[i], lines[i + 1])))
            ELSE ParseLoop(lines, i + 2, entries)
       ELSE ParseLoop(lines, i + 1, entries)

\* HeaderSplit that keeps the directive alone and not the rest of the first line
HeaderSplitDirectiveOnly(content) ==
  LET lines == ContentLines(content)
  IN IF lines # <<>> /\ StartsWith(lines[1], EXTM3U)
     THEN [first_line |-> EXTM3U, lines |-> Tail(lines)]
     ELSE [first_line |-> <<>>, lines |-> lines]

\* first_line and the lines scanned for entries
HeaderSplit(content) ==
  LET lines == ContentLines(content)
  IN IF lines # <<>> /\ StartsWith(lines[1], EXTM3U)
     THEN [first_line |-> lines[1], lines |-> Tail(lines)]
     ELSE [first_line |-> <<>>, lines |-> lines]

\* entries: the list of (clean_id, new_line) in parse order
ParseEntries(content) == ParseLoop(HeaderSplit(content).lines, 1, <<>>)

\* DictSet that keeps the value a present key already has
DictSetKeepFirst(d, tvg_id, channel_line) ==
  IF \E k \in 1..Len(d) : d[k][1] = tvg_id
  THEN d
  ELSE Append(d, <<tvg_id, channel_line>>)

\* DictSet that keeps every entry of the empty identity as an item of its own
DictSetKeepsAnonymous(d, tvg_id, channel_line) ==
  IF tvg_id # <<>> /\ \E k \in 1..Len(d) : d[k][1] = tvg_id
  THEN [k \in 1..Len(d) |-> IF d[k][1] = tvg_id THEN <<tvg_id, channel_line>> ELSE d[k]]
  ELSE Append(d, <<tvg_id, channel_line>>)

\* unique_dict[tvg_id] = channel_line on a dict kept as its item list:
\* a present key keeps its position and takes the new value, a new key is appended
DictSet(d, tvg_id, channel_line) ==
  IF \E k \in 1..Len(d) : d[k][1] = tvg_id
  THEN [k \in 1..Len(d) |-> IF d[k][1] = tvg_id THEN <<tvg_id, channel_line>> ELSE d[k]]
  ELSE Append(d, <<tvg_id, channel_line>>)

RECURSIVE DedupLoop(_, _, _)
\* the dedup loop over entries from index k: [unique_dict, duplicate_count]
DedupLoop(entries, k, acc) ==
  IF k > Len(entries) THEN acc
  ELSE DedupLoop(entries, k + 1,
         [unique_dict |-> DictSet(acc.unique_dict, entries[k][1], entries[k][2]),
          duplicate_count |-> IF \E j \in 1..Len(acc.unique_dict) :
                                     acc.unique_dict[j][1] = entries[k][1]
                              THEN acc.duplicate_count + 1 ELSE acc.duplicate_count])

Dedup(entries) == DedupLoop(entries, 1, [unique_dict |-> <<>>, duplicate_count |-> 0])

\* sort_key(item): the tuple (category_weight, tvg_id) or (0, num, tvg_id)
sort_key(item) ==
  LET tvg_id == item[1]
  IN IF tvg_id = CCTV THEN <<2, tvg_id>>
     ELSE IF StartsWith(tvg_id, CCTV) THEN <<0, extract_cctv_number(tvg_id), tvg_id>>
     ELSE IF EndsWith(tvg_id, WeiShi) \/ EndsWith(tvg_id, WeiShiTrad) THEN <<1, tvg_id>>
     ELSE <<3, tvg_id>>

\* a < b on the tuples sort_key returns
KeyLess(a, b) ==
  IF a[1] # b[1] THEN a[1] < b[1]
  ELSE IF Len(a) = 3
       THEN IF a[2] # b[2] THEN a[2] < b[2] ELSE StrLess(a[3], b[3])
       ELSE StrLess(a[2], b[2])

RECURSIVE SortedInsert(_, _)
\* item inserted into the sorted list s after every element not greater than it
SortedInsert(s, item) ==
  IF s = <<>> THEN <<item>>
  ELSE IF KeyLess(sort_key(item), sort_key(s[1])) THEN <<item>> \o s
  ELSE <<s[1]>> \o SortedInsert(Tail(s), item)

RECURSIVE SortItems(_)
\* sorted(unique_dict.items(), key=sort_key): ascending and stable
SortItems(items) ==
  IF items = <<>> THEN <<>>
  ELSE SortedInsert(SortItems(SubSeq(items, 1, Len(items) - 1)), items[Len(items)])

\* result_lines joined by newlines
BuildResult(first_line, sorted_items) ==
  Join(<<IF first_line # <<>> THEN first_line ELSE EXTM3U>>
       \o [k \in 1..Len(sorted_items) |-> sorted_items[k][2]], <<10>>)

process_m3u_content(content) ==
  BuildResult(HeaderSplit(content).first_line,
              SortItems(Dedup(ParseEntries(content)).unique_dict))

\* processed_content.count('#EXTINF:')
RECURSIVE CountSub(_, _)
CountSub(s, p) ==
  IF Find(s, p) = 0 THEN 0 ELSE 1 + CountSub(From(s, Find(s, p) + Len(p)), p)

(***************************************************************************)
(* Probe-channel extraction and the speed probe                            *)
(***************************************************************************)
RECURSIVE Cctv5Loop(_, _)
\* the loop of extract_cctv5_url from index i: [found, url]
Cctv5Loop(lines, i) ==
  IF i > Len(lines) THEN [found |-> FALSE, url |-> <<>>]
  ELSE IF /\ StartsWith(lines[i], EXTINF)
          /\ (Contains(Upper(lines[i]), CCTV5) \/ Contains(lines[i], CCTV_5))
          /\ i + 1 <= Len(lines)
          /\ ~StartsWith(lines[i + 1], <<35>>)
       THEN [found |-> TRUE, url |-> Strip(lines[i + 1])]
  ELSE Cctv5Loop(lines, i + 1)

\* extract_cctv5_url(m3u_content): [found, url], found = FALSE for None
extract_cctv5_url(m3u_content) == Cctv5Loop(ContentLines(m3u_content), 1)

RECURSIVE FirstChannelLoop(_, _)
\* the fallback loop "use the first channel" from index i: the url, "" when none
FirstChannelLoop(lines, i) ==
  IF i > Len(lines) THEN <<>>
  ELSE IF /\ StartsWith(lines[i], EXTINF)
          /\ i + 1 <= Len(lines)
          /\ ~StartsWith(lines[i + 1], <<35>>)
       THEN Strip(lines[i + 1])
  ELSE FirstChannelLoop(lines, i + 1)

\* ProbeTarget that does not look for the reference channel
ProbeTargetFirstChannel(m3u_content) == FirstChannelLoop(ContentLines(m3u_content), 1)

\* test_url as the evaluation loop computes it: "if not test_url" treats both None
\* and an empty CCTV5 url as missing; <<>> when no address is found
ProbeTarget(m3u_content) ==
  LET c5 == extract_cctv5_url(m3u_content)
  IN IF c5.found /\ c5.url # <<>> THEN c5.url
     ELSE FirstChannelLoop(ContentLines(m3u_content), 1)

\* the default test_duration of the probe as the evaluation loop passes it
test_duration == 3
\* the size of a transport-stream packet and its sync byte 0x47
TsPacketSize == 188
TsSyncByte == 71

\* the scratch file test_speed.tmp: absent, or present with a size and a first byte
NoFile == [exists |-> FALSE, size |-> 0, first |-> 0]
FileOf(size, first) == [exists |-> TRUE, size |-> size, first |-> first]

\* speed_kb as the exact fraction num / den
ZeroSpeed == [num |-> 0, den |-> 1]
\* file_size / elapsed / 1024
SpeedKb(file_size, elapsed) == [num |-> file_size, den |-> elapsed * 1024]
\* Halved without the penalty
Unpenalized(speed) == speed

\* speed_kb * 0.5
Halved(speed) == [num |-> speed.num, den |-> speed.den * 2]
\* a < b and a = b on speeds
SpeedLess(a, b) == a.num * b.den < b.num * a.den
SpeedEq(a, b) == a.num * b.den = b.num * a.den

\* len(data) >= 188 and data[0] == 0x47, data being the first 1024 bytes of the file
is_valid_stream(file) == file.size >= TsPacketSize /\ file.first = TsSyncByte

\* test_ip_download_speed(url, test_duration) run with the scratch file `before`:
\* curl_ok: the curl --version check passes; download: NoFile when curl writes
\* nothing, else the file curl leaves; elapsed: seconds from start to termination.
\* The result is [success, speed_kb, temp_file], temp_file being the file left behind.
test_ip_download_speed(before, curl_ok, download, elapsed) ==
  IF ~curl_ok THEN [success |-> FALSE, speed_kb |-> ZeroSpeed, temp_file |-> before]
  ELSE LET file == IF download.exists THEN download ELSE before
       IN IF file.exists /\ file.size > 0
          THEN [success |-> TRUE,
                speed_kb |-> IF is_valid_stream(file)
                             THEN SpeedKb(file.size, elapsed)
                             ELSE Halved(SpeedKb(file.size, elapsed)),
                temp_file |-> NoFile]
          ELSE [success |-> FALSE, speed_kb |-> ZeroSpeed, temp_file |-> file]

\* download_test(url, test_duration) of process_iptv.py run with its scratch file
\* `before`; curl_ok and download as for test_ip_download_speed. The result is
\* [ts, temp_file]: ts is the return value (a transport stream was detected),
\* temp_file the file left behind.
download_test(before, curl_ok, download) ==
  IF ~curl_ok THEN [ts |-> FALSE, temp_file |-> before]
  ELSE LET file == IF download.exists THEN download ELSE before
       IN IF file.exists /\ file.size > 0
          THEN [ts |-> file.first = TsSyncByte, temp_file |-> NoFile]
          ELSE [ts |-> FALSE, temp_file |-> file]

(***************************************************************************)
(* Ranking                                                                 *)
(***************************************************************************)
RECURSIVE InsertBySpeedTiesFirst(_, _)
\* InsertBySpeed with the comparison turned round: r goes before the elements of
\* equal speed
InsertBySpeedTiesFirst(s, r) ==
  IF s = <<>> THEN <<r>>
  ELSE IF ~SpeedLess(r.speed_kb, s[1].speed_kb) THEN <<r>> \o s
  ELSE <<s[1]>> \o InsertBySpeedTiesFirst(Tail(s), r)

RECURSIVE InsertBySpeed(_, _)
\* r inserted into a list sorted by speed_kb descending, after every element
\* whose speed is not smaller (list.sort(key=speed_kb, reverse=True) is stable)
InsertBySpeed(s, r) ==
  IF s = <<>> THEN <<r>>
  ELSE IF SpeedLess(s[1].speed_kb, r.speed_kb) THEN <<r>> \o s
  ELSE <<s[1]>> \o InsertBySpeed(Tail(s), r)

RECURSIVE SortBySpeedDesc(_)
SortBySpeedDesc(rs) ==
  IF rs = <<>> THEN <<>>
  ELSE InsertBySpeed(SortBySpeedDesc(SubSeq(rs, 1, Len(rs) - 1)), rs[Len(rs)])

\* [r for r in tested_results if r['success']]
Successful(rs) == SelectSeq(rs, LAMBDA r : r.success)

(***************************************************************************)
(* The environment of a run                                                *)
(***************************************************************************)
\* the largest number of candidate sources discovery returns
MaxCands == 3

\* playlists a fetch may return: one with the reference channel after another
\* channel, one without the reference channel, one whose only metadata line has
\* no address line
PlaylistCctv5 == <<35, 69, 88, 84, 77, 51, 85, 10, 35, 69, 88, 84, 73, 78, 70, 58, 45, 49, 32, 116, 118, 103, 45, 105, 100, 61, 34, 65, 34, 44, 65, 10, 117, 49, 10, 35, 69, 88, 84, 73, 78, 70, 58, 45, 49, 32, 116, 118, 103, 45, 105, 100, 61, 34, 67, 67, 84, 86, 53, 34, 44, 67, 67, 84, 86, 53, 10, 117, 53>>
PlaylistOther == <<35, 69, 88, 84, 77, 51, 85, 10, 35, 69, 88, 84, 73, 78, 70, 58, 45, 49, 32, 116, 118, 103, 45, 105, 100, 61, 34, 65, 34, 44, 65, 10, 117, 49>>
PlaylistNoUrl == <<35, 69, 88, 84, 77, 51, 85, 10, 35, 69, 88, 84, 73, 78, 70, 58, 45, 49, 32, 116, 118, 103, 45, 105, 100, 61, 34, 67, 67, 84, 86, 53, 34, 44, 67, 67, 84, 86, 53>>
Playlists == {PlaylistCctv5, PlaylistOther, PlaylistNoUrl}

\* what curl may leave behind: nothing, an empty file, less than one packet,
\* a transport stream, a long body that is no transport stream
Downloads == {NoFile, FileOf(0, 0), FileOf(100, TsSyncByte), FileOf(376, TsSyncByte), FileOf(376, 60)}
\* seconds between the start of curl and its termination
Elapsed == {test_duration}
\* the scratch file before the run: absent or left by an earlier process
InitialTempFiles == {NoFile, FileOf(376, TsSyncByte)}

(***************************************************************************)
(* The run of main(): state                                                *)
(***************************************************************************)
VARIABLES
  script,             \* which script runs: "iptv-test" or "process_iptv"
  pc,                 \* the position of main()
  available_ips,      \* process_iptv: the number of rows get_available_ips returned
  m3u_urls,           \* the number of candidates (m3u_urls / ips_with_m3u), numbered 1..m3u_urls
  idx,                \* the candidate the evaluation loop is at
  test_url,           \* the probe address of the candidate at idx
  tested_results,     \* tested_results / tested_ips, in append order
  successful_results, \* the ranked list test_all_*_speed returns
  fastest_result,     \* the selected record, NoResult before the selection
  final_m3u_content,  \* the text of the final fetch
  processed_content,  \* what process_m3u_content returned in main()
  output_file,        \* CN-fast.m3u / CN.m3u: [opened, written, content]
  exit_code,          \* the exit status, Running before the process ends
  failure,            \* why the run ended, "none" while it has not failed
  temp_file,          \* the scratch file test_speed.tmp
  fetch_log,          \* the candidates fetch_m3u_content was called for, in call order
  probe_log           \* the candidates test_ip_download_speed was called for, in call order

runVars == <<script, pc, available_ips, m3u_urls, idx, test_url, tested_results,
             successful_results, fastest_result, final_m3u_content, processed_content,
             output_file, exit_code, failure, temp_file, fetch_log, probe_log>>

(***************************************************************************)
(* The check of process_m3u_content and of the canonicalization rules on   *)
(* enumerated inputs: state                                                *)
(***************************************************************************)
VARIABLES
  content,        \* the argument of process_m3u_content
  stage,          \* how far process_m3u_content has come
  first_line,     \* its local first_line
  entries,        \* its local entries
  unique_dict,    \* its local unique_dict, as the list of its items
  duplicate_count,\* its local duplicate_count
  sorted_items,   \* its local sorted_items
  result          \* its return value

procVars == <<content, stage, first_line, entries, unique_dict, duplicate_count,
              sorted_items, result>>

VARIABLES
  raw,            \* a raw field value
  rule,           \* the rule applied to it: "tvg_id", "name" or "group"
  applied,        \* whether the rule has been applied
  once,           \* the rule applied once
  twice           \* the rule applied to that result

canonVars == <<raw, rule, applied, once, twice>>

VARIABLES
  probe_file,     \* the scratch file of test_ip_download_speed between its calls
  calls,          \* the calls of test_ip_download_speed so far: inputs and results
  dl_file,        \* the scratch file test_cctv5.tmp of download_test between its calls
  dl_calls        \* the calls of download_test so far: inputs and results

probeVars == <<probe_file, calls, dl_file, dl_calls>>

VARIABLES
  task_pc,        \* the position of test_ip_download_speed: "idle" outside a call
  children,       \* the curl processes started so far, in start order: their states
  reads           \* for each check of the scratch file, the processes alive at it

taskVars == <<task_pc, children, reads>>

VARIABLES
  candidate_content, \* test_m3u_url_speed: the playlist text fetched (m3u_content)
  select_pc,         \* the position of test_m3u_url_speed
  select_result,     \* its local result
  select_probes      \* the addresses test_ip_download_speed was called with

selVars == <<candidate_content, select_pc, select_result, select_probes>>

vars == <<runVars, procVars, canonVars, probeVars, taskVars, selVars>>

\* exit_code while the process has not ended
Running == 0 - 1
NoResult == [url |-> 0, success |-> FALSE, speed_kb |-> ZeroSpeed, test_url |-> <<>>,
             error |-> "none"]
NoOutput == [opened |-> FALSE, written |-> FALSE, content |-> <<>>]

RunIdle ==
  /\ script = "none" /\ pc = "idle" /\ available_ips = 0 /\ m3u_urls = 0 /\ idx = 0
  /\ test_url = <<>> /\ tested_results = <<>> /\ successful_results = <<>>
  /\ fastest_result = NoResult /\ final_m3u_content = <<>> /\ processed_content = <<>>
  /\ output_file = NoOutput /\ exit_code = Running /\ failure = "none"
  /\ temp_file = NoFile /\ fetch_log = <<>> /\ probe_log = <<>>

ProcIdle ==
  /\ content = <<>> /\ stage = "idle" /\ first_line = <<>> /\ entries = <<>>
  /\ unique_dict = <<>> /\ duplicate_count = 0 /\ sorted_items = <<>> /\ result = <<>>

CanonIdle == raw = <<>> /\ rule = "none" /\ applied = FALSE /\ once = <<>> /\ twice = <<>>

ProbeIdle == probe_file = NoFile /\ calls = <<>> /\ dl_file = NoFile /\ dl_calls = <<>>

TaskIdle == task_pc = "none" /\ children = <<>> /\ reads = <<>>

SelectIdle ==
  /\ candidate_content = <<>> /\ select_pc = "none" /\ select_result = NoResult
  /\ select_probes = <<>>

(***************************************************************************)
(* The run of main(): actions                                              *)
(***************************************************************************)
Init ==
  /\ script \in {"iptv-test", "process_iptv"}
  /\ pc = "start"
  /\ available_ips = 0 /\ m3u_urls = 0 /\ idx = 0
  /\ test_url = <<>> /\ tested_results = <<>> /\ successful_results = <<>>
  /\ fastest_result = NoResult /\ final_m3u_content = <<>> /\ processed_content = <<>>
  /\ output_file = NoOutput /\ exit_code = Running /\ failure = "none"
  /\ temp_file \in InitialTempFiles
  /\ fetch_log = <<>> /\ probe_log = <<>>
  /\ ProcIdle /\ CanonIdle /\ ProbeIdle /\ TaskIdle /\ SelectIdle

\* sys.exit(code) or the return of main()
Exit(code, why) ==
  /\ pc' = "exit" /\ exit_code' = code /\ failure' = why

\* iptv-test main(): download_m3u_urls_from_github() and the check of its result
DiscoverUrls ==
  /\ script = "iptv-test" /\ pc = "start"
  /\ \E n \in 0..MaxCands :
       /\ m3u_urls' = n
       /\ IF n = 0
          THEN Exit(1, "no_candidates") /\ idx' = idx
          ELSE pc' = "loop" /\ idx' = 1 /\ UNCHANGED <<exit_code, failure>>
  /\ UNCHANGED <<script, available_ips, test_url, tested_results, successful_results,
                 fastest_result, final_m3u_content, processed_content, output_file,
                 temp_file, fetch_log, probe_log>>
  /\ UNCHANGED <<procVars, canonVars, probeVars, taskVars, selVars>>

\* process_iptv main(): get_available_ips() and the check of its result;
\* raised = TRUE when it raises
GetAvailableIps ==
  /\ script = "process_iptv" /\ pc = "start"
  /\ \E raised \in BOOLEAN, n \in 0..MaxCands :
       IF raised
       THEN n = 0 /\ Exit(1, "discovery_exception") /\ available_ips' = available_ips
       ELSE /\ available_ips' = n
            /\ IF n = 0
               THEN Exit(1, "no_candidates")
               ELSE pc' = "get_m3u" /\ UNCHANGED <<exit_code, failure>>
  /\ UNCHANGED <<script, m3u_urls, idx, test_url, tested_results, successful_results,
                 fastest_result, final_m3u_content, processed_content, output_file,
                 temp_file, fetch_log, probe_log>>
  /\ UNCHANGED <<procVars, canonVars, probeVars, taskVars, selVars>>

\* process_iptv main(): get_all_m3u_urls(available_ips), which keeps the rows whose
\* address could be completed, and the check of its result
GetAllM3uUrls ==
  /\ script = "process_iptv" /\ pc = "get_m3u"
  /\ \E n \in 0..available_ips :
       /\ m3u_urls' = n
       /\ IF n = 0
          THEN Exit(0, "no_m3u_links") /\ idx' = idx
          ELSE pc' = "loop" /\ idx' = 1 /\ UNCHANGED <<exit_code, failure>>
  /\ UNCHANGED <<script, available_ips, test_url, tested_results, successful_results,
                 fastest_result, final_m3u_content, processed_content, output_file,
                 temp_file, fetch_log, probe_log>>
  /\ UNCHANGED <<procVars, canonVars, probeVars, taskVars, selVars>>

\* the record of a candidate that did not succeed: iptv-test appends it to
\* tested_results, process_iptv records nothing
RecordFailure(rs, url, target, why) ==
  IF script = "iptv-test"
  THEN Append(rs, [url |-> url, success |-> FALSE, speed_kb |-> ZeroSpeed,
                   test_url |-> target, error |-> why])
  ELSE rs

\* the record of a candidate whose probe succeeded
RecordSuccess(rs, url, target, speed) ==
  Append(rs, [url |-> url, success |-> TRUE, speed_kb |-> speed,
              test_url |-> target, error |-> "none"])

\* FetchCandidate whose fetch exception is not contained in the iteration: it
\* reaches the except clause of main()
FetchCandidateAborts ==
  /\ pc = "loop" /\ idx <= m3u_urls
  /\ fetch_log' = Append(fetch_log, idx)
  /\ \E fetched \in Playlists \cup {<<>>} :
       IF fetched = <<>>
       THEN /\ Exit(1, "fetch_exception")
            /\ UNCHANGED <<tested_results, idx, test_url>>
       ELSE IF ProbeTarget(fetched) = <<>>
            THEN /\ tested_results' = RecordFailure(tested_results, idx, <<>>, "no_test_url")
                 /\ idx' = idx + 1
                 /\ UNCHANGED <<pc, test_url, exit_code, failure>>
            ELSE /\ test_url' = ProbeTarget(fetched)
                 /\ pc' = "probe"
                 /\ UNCHANGED <<tested_results, idx, exit_code, failure>>
  /\ UNCHANGED <<script, available_ips, m3u_urls, successful_results, fastest_result,
                 final_m3u_content, processed_content, output_file, temp_file, probe_log>>
  /\ UNCHANGED <<procVars, canonVars, probeVars, taskVars, selVars>>

\* one iteration of the evaluation loop up to the probe: fetch_m3u_content and the
\* extraction of the probe address. fetched = <<>> stands for a fetch that raises.
FetchCandidate ==
  /\ pc = "loop" /\ idx <= m3u_urls
  /\ fetch_log' = Append(fetch_log, idx)
  /\ \E fetched \in Playlists \cup {<<>>} :
       IF fetched = <<>>
       THEN /\ tested_results' = RecordFailure(tested_results, idx, <<>>, "exception")
            /\ idx' = idx + 1
            /\ UNCHANGED <<pc, test_url>>
       ELSE IF ProbeTarget(fetched) = <<>>
            THEN /\ tested_results' = RecordFailure(tested_results, idx, <<>>, "no_test_url")
                 /\ idx' = idx + 1
                 /\ UNCHANGED <<pc, test_url>>
            ELSE /\ test_url' = ProbeTarget(fetched)
                 /\ pc' = "probe"
                 /\ UNCHANGED <<tested_results, idx>>
  /\ UNCHANGED <<script, available_ips, m3u_urls, successful_results, fastest_result,
                 final_m3u_content, processed_content, output_file, exit_code, failure,
                 temp_file, probe_log>>
  /\ UNCHANGED <<procVars, canonVars, probeVars, taskVars, selVars>>

\* the number of bytes the download of one probe receives: none when curl is not
\* available or writes no file
Received(curl_ok, download) == IF curl_ok /\ download.exists THEN download.size ELSE 0

\* ProbeCandidate that leaves the evaluation loop at the first successful probe
ProbeCandidateStopsAtSuccess ==
  /\ pc = "probe"
  /\ probe_log' = Append(probe_log, idx)
  /\ \E curl_ok \in BOOLEAN, download \in Downloads, elapsed \in Elapsed :
       LET r == test_ip_download_speed(temp_file, curl_ok, download, elapsed)
       IN /\ temp_file' = r.temp_file
          /\ tested_results' =
               IF r.success
               THEN RecordSuccess(tested_results, idx, test_url, r.speed_kb)
               ELSE RecordFailure(tested_results, idx, test_url, "probe_failed")
          /\ idx' = IF r.success THEN m3u_urls + 1 ELSE idx + 1
  /\ pc' = "loop"
  /\ test_url' = <<>>
  /\ UNCHANGED <<script, available_ips, m3u_urls, successful_results, fastest_result,
                 final_m3u_content, processed_content, output_file, exit_code, failure,
                 fetch_log>>
  /\ UNCHANGED <<procVars, canonVars, probeVars, taskVars, selVars>>

\* the rest of the iteration: test_ip_download_speed(test_url, 3) and the record
ProbeCandidate ==
  /\ pc = "probe"
  /\ probe_log' = Append(probe_log, idx)
  /\ \E curl_ok \in BOOLEAN, download \in Downloads, elapsed \in Elapsed :
       LET r == test_ip_download_speed(temp_file, curl_ok, download, elapsed)
       IN /\ temp_file' = r.temp_file
          /\ tested_results' =
               IF r.success
               THEN RecordSuccess(tested_results, idx, test_url, r.speed_kb)
               ELSE RecordFailure(tested_results, idx, test_url, "probe_failed")
  /\ idx' = idx + 1
  /\ pc' = "loop"
  /\ test_url' = <<>>
  /\ UNCHANGED <<script, available_ips, m3u_urls, successful_results, fastest_result,
                 final_m3u_content, processed_content, output_file, exit_code, failure,
                 fetch_log>>
  /\ UNCHANGED <<procVars, canonVars, probeVars, taskVars, selVars>>

\* the ranked list test_all_m3u_urls_speed / test_all_ips_speed returns
Ranked(rs) == SortBySpeedDesc(Successful(rs))

\* NoSuccessExitCode with the two scripts' statuses exchanged
NoSuccessExitCodeSwapped == IF script = "iptv-test" THEN 0 ELSE 1

\* the exit status of main() when the ranked list is empty
NoSuccessExitCode == IF script = "iptv-test" THEN 1 ELSE 0

\* the end of the evaluation loop: the ranking, the check for an empty ranking
\* and the selection of the first ranked record
RankAndSelect ==
  /\ pc = "loop" /\ idx > m3u_urls
  /\ LET ranked == Ranked(tested_results)
     IN /\ successful_results' = ranked
        /\ IF ranked = <<>>
           THEN Exit(NoSuccessExitCode, "no_success") /\ UNCHANGED fastest_result
           ELSE /\ fastest_result' = ranked[1]
                /\ pc' = "final_fetch"
                /\ UNCHANGED <<exit_code, failure>>
  /\ UNCHANGED <<script, available_ips, m3u_urls, idx, test_url, tested_results,
                 final_m3u_content, processed_content, output_file, temp_file,
                 fetch_log, probe_log>>
  /\ UNCHANGED <<procVars, canonVars, probeVars, taskVars, selVars>>

\* FinalFetch with the output file opened for writing before the fetch
FinalFetchOpensFirst ==
  /\ pc = "final_fetch"
  /\ fetch_log' = Append(fetch_log, fastest_result.url)
  /\ output_file' = [opened |-> TRUE, written |-> FALSE, content |-> <<>>]
  /\ \E fetched \in Playlists \cup {<<>>} :
       IF fetched = <<>>
       THEN Exit(1, "final_fetch") /\ UNCHANGED final_m3u_content
       ELSE /\ final_m3u_content' = fetched
            /\ pc' = "process"
            /\ UNCHANGED <<exit_code, failure>>
  /\ UNCHANGED <<script, available_ips, m3u_urls, idx, test_url, tested_results,
                 successful_results, fastest_result, processed_content,
                 temp_file, probe_log>>
  /\ UNCHANGED <<procVars, canonVars, probeVars, taskVars, selVars>>

\* FinalFetch that takes a text kept from the evaluation loop and fetches nothing
FinalFetchReusesText ==
  /\ pc = "final_fetch"
  /\ \E kept \in Playlists :
       /\ ProbeTarget(kept) = fastest_result.test_url
       /\ final_m3u_content' = kept
  /\ pc' = "process"
  /\ UNCHANGED <<script, available_ips, m3u_urls, idx, test_url, tested_results,
                 successful_results, fastest_result, processed_content, output_file,
                 exit_code, failure, temp_file, fetch_log, probe_log>>
  /\ UNCHANGED <<procVars, canonVars, probeVars, taskVars, selVars>>

\* main(): fetch_m3u_content(fastest_url); a raise reaches the except clause of main()
FinalFetch ==
  /\ pc = "final_fetch"
  /\ fetch_log' = Append(fetch_log, fastest_result.url)
  /\ \E fetched \in Playlists \cup {<<>>} :
       IF fetched = <<>>
       THEN Exit(1, "final_fetch") /\ UNCHANGED final_m3u_content
       ELSE /\ final_m3u_content' = fetched
            /\ pc' = "process"
            /\ UNCHANGED <<exit_code, failure>>
  /\ UNCHANGED <<script, available_ips, m3u_urls, idx, test_url, tested_results,
                 successful_results, fastest_result, processed_content, output_file,
                 temp_file, probe_log>>
  /\ UNCHANGED <<procVars, canonVars, probeVars, taskVars, selVars>>

\* main(): processed_content = process_m3u_content(final_m3u_content)
ProcessFinal ==
  /\ pc = "process"
  /\ processed_content' = process_m3u_content(final_m3u_content)
  /\ pc' = "write"
  /\ UNCHANGED <<script, available_ips, m3u_urls, idx, test_url, tested_results,
                 successful_results, fastest_result, final_m3u_content, output_file,
                 exit_code, failure, temp_file, fetch_log, probe_log>>
  /\ UNCHANGED <<procVars, canonVars, probeVars, taskVars, selVars>>

\* main(): open(output_file, 'w') and f.write(processed_content), then the summary
\* and the return of main(). io: both succeed, open raises, or write raises.
WriteOutput ==
  /\ pc = "write"
  /\ \E io \in {"ok", "open_raises", "write_raises"} :
       CASE io = "ok" ->
              /\ output_file' = [opened |-> TRUE, written |-> TRUE,
                                 content |-> processed_content]
              /\ Exit(0, "none")
         [] io = "open_raises" ->
              /\ UNCHANGED output_file
              /\ Exit(1, "output_open")
         [] io = "write_raises" ->
              /\ output_file' = [opened |-> TRUE, written |-> FALSE, content |-> <<>>]
              /\ Exit(1, "output_write")
  /\ UNCHANGED <<script, available_ips, m3u_urls, idx, test_url, tested_results,
                 successful_results, fastest_result, final_m3u_content, processed_content,
                 temp_file, fetch_log, probe_log>>
  /\ UNCHANGED <<procVars, canonVars, probeVars, taskVars, selVars>>

Next ==
  \/ DiscoverUrls
  \/ GetAvailableIps
  \/ GetAllM3uUrls
  \/ FetchCandidate
  \/ ProbeCandidate
  \/ RankAndSelect
  \/ FinalFetch
  \/ ProcessFinal
  \/ WriteOutput

Spec == Init /\ [][Next]_vars

(***************************************************************************)
(* process_m3u_content on enumerated playlists                             *)
(***************************************************************************)
\* the largest number of metadata lines of an enumerated playlist
MaxEntries == 3

\* tvg-id values of the enumerated playlists, by family; a playlist draws all its
\* identities from one family.
\* spellings of one channel, another channel and the empty identity
IdsDedup == {<<67, 67, 84, 86, 45, 49, 39640, 28165>>, <<67, 67, 84, 86, 49>>, <<65>>, <<>>}
\* one identity of each sort category: numbered, satellite, other, family prefix
\* without digits, the bare family prefix
IdsSort == {<<67, 67, 84, 86, 49>>, <<28246, 21335, 21355, 35270>>, <<65>>, <<67, 67, 84, 86, 120>>, CCTV}

\* two plain identities
IdsPlain == {<<65>>, <<66>>}
\* numbered identities: two numbers of different length, and one number with no
\* suffix, the plus marker and a preserved suffix
IdsNum == {<<67, 67, 84, 86, 50>>, <<67, 67, 84, 86, 49, 48>>, CCTV5, <<67, 67, 84, 86, 53, 43>>, <<67, 67, 84, 86, 53, 45, 20307, 32946>>}
\* identities for the logo rule: a misspelling split by the high-definition marker,
\* the empty identity, a plain numbered one, and "A/B" with a path separator
IdsLogo == {<<67, 67, 39640, 28165, 86, 84, 53>>, <<>>, <<67, 67, 84, 86, 49>>, <<65, 47, 66>>}
\* a start line that carries an attribute after the directive
HeaderAttr == EXTM3U \o <<32, 120, 61, 49>>
\* the same start line after an empty line
HeaderAfterBlank == <<10>> \o HeaderAttr
\* a logo reference of the input
InputLogo == <<76>>
\* in the place of an identity: the metadata line has no tvg-id attribute
NoTvgId == <<0>>
\* identities for the entries without identity: an empty tvg-id, no tvg-id, and a
\* plain identity
IdsAnonymous == {<<>>, NoTvgId, <<65>>}

\* the enumerated playlists: a start line (none, the plain directive, the directive
\* with an attribute, or that after an empty line), the family the identities are drawn from, the
\* kinds of line that may follow a metadata line ("url": an address, "none": no
\* line, "empty": an empty line) and the logo reference of the metadata lines
Scenarios ==
  {[header |-> EXTM3U, ids |-> IdsDedup, kinds |-> {"url", "none"}, logo |-> <<>>],
   [header |-> <<>>, ids |-> IdsSort, kinds |-> {"url", "none"}, logo |-> <<>>],
   [header |-> EXTM3U, ids |-> IdsPlain, kinds |-> {"url", "empty"}, logo |-> <<>>],
   [header |-> HeaderAttr, ids |-> IdsNum, kinds |-> {"url"}, logo |-> <<>>],
   [header |-> HeaderAfterBlank, ids |-> IdsPlain, kinds |-> {"url"}, logo |-> <<>>],
   [header |-> EXTM3U, ids |-> IdsLogo, kinds |-> {"url"}, logo |-> InputLogo],
   [header |-> EXTM3U, ids |-> IdsAnonymous, kinds |-> {"url"}, logo |-> <<>>]}

\* the address line of the metadata line at position k: "u1", "u2", ...
UrlAt(k) == <<117, 48 + k>>
\* a metadata line with a tvg-id, a logo reference when logo is not empty, and the
\* identity as display name; without the tvg-id attribute, and with the display
\* name "N", when id is NoTvgId
MetaLine(id, logo) ==
  (IF id = NoTvgId THEN EXTINF \o <<45, 49>> ELSE EXTINF_TVG_ID \o id \o <<34>>)
  \o (IF logo # <<>> THEN SP_TVG_LOGO_ATTR \o logo \o <<34>> ELSE <<>>)
  \o <<44>> \o (IF id = NoTvgId THEN <<78>> ELSE id)

RECURSIVE ItemLines(_, _, _)
\* the lines of the items from position k: item <<id, kind>> gives its metadata
\* line and the line its kind asks for
ItemLines(items, logo, k) ==
  IF k > Len(items) THEN <<>>
  ELSE <<MetaLine(items[k][1], logo)>>
       \o (IF items[k][2] = "url" THEN <<UrlAt(k)>>
           ELSE IF items[k][2] = "empty" THEN << <<>> >>
           ELSE <<>>)
       \o ItemLines(items, logo, k + 1)

ContentOf(header, logo, items) ==
  Join((IF header # <<>> THEN <<header>> ELSE <<>>) \o ItemLines(items, logo, 1), <<10>>)

\* the item lists of at most MaxEntries items drawn from ids and kinds
ItemSeqs(ids, kinds) == UNION {[1..n -> ids \X kinds] : n \in 0..MaxEntries}

InitProcess ==
  /\ RunIdle /\ CanonIdle /\ ProbeIdle /\ TaskIdle /\ SelectIdle
  /\ \E sc \in Scenarios :
       \E items \in ItemSeqs(sc.ids, sc.kinds) :
         content = ContentOf(sc.header, sc.logo, items)
  /\ stage = "input"
  /\ first_line = <<>> /\ entries = <<>> /\ unique_dict = <<>> /\ duplicate_count = 0
  /\ sorted_items = <<>> /\ result = <<>>

\* process_m3u_content(content), its locals kept: each step reads what the steps
\* before it assigned
ProcessContent ==
  /\ stage = "input"
  /\ stage' = "done"
  /\ first_line' = HeaderSplit(content).first_line
  /\ entries' = ParseEntries(content)
  /\ unique_dict' = Dedup(entries').unique_dict
  /\ duplicate_count' = Dedup(entries').duplicate_count
  /\ sorted_items' = SortItems(unique_dict')
  /\ result' = BuildResult(first_line', sorted_items')
  /\ UNCHANGED <<content, runVars, canonVars, probeVars, taskVars, selVars>>

NextProcess == ProcessContent

SpecProcess == InitProcess /\ [][NextProcess]_vars

(***************************************************************************)
(* The canonicalization rules on enumerated field values                   *)
(***************************************************************************)
\* the largest number of tokens of an enumerated field value
MaxTokens == 4

\* the pieces field values are built from: "CCTV", "CCVT", "5", "+", "-", " ",
\* the two characters of the high-definition marker, and a preserved suffix
Tokens == {CCTV, CCVT, <<53>>, <<43>>, <<45>>, <<32>>, <<39640>>, <<28165>>, <<20307, 32946>>}

RECURSIVE Concat(_)
Concat(parts) == IF parts = <<>> THEN <<>> ELSE parts[1] \o Concat(Tail(parts))

TokenSeqs == UNION {[1..n -> Tokens] : n \in 0..MaxTokens}

\* field values beyond the token strings: both a hyphen-joined and a trailing
\* preserved suffix, a lower-case prefix with a space and a trailing space, the
\* full-width plus marker, generic suffixes, resolution-tier markers, a
\* hyphen-joined preserved suffix before the plus marker, the misspelled prefix
\* after a lower-case letter ("aCCVT5"), and the misspelled prefix in lower case
Samples == {<<67, 67, 84, 86, 53, 45, 20307, 32946, 43>>,
            <<97, 67, 67, 86, 84, 53>>, <<99, 99, 118, 116, 53>>,
            <<67, 67, 84, 86, 53, 45, 26032, 38395, 20307, 32946>>, <<99, 99, 116, 118, 32, 49, 51, 26032, 38395, 32>>, <<67, 67, 84, 86, 53, 65291>>, <<67, 67, 84, 86, 49, 32508, 21512, 72, 68>>, <<67, 67, 84, 86, 52, 75>>, <<67, 67, 84, 86, 49, 54, 32, 52, 75>>, <<67, 67, 84, 86, 45, 56, 75>>}

\* the three rules of the parse loop, and clean_cctv_name on its own
FieldRules == {"tvg_id", "name", "group"}
Rules == FieldRules \cup {"cctv_name"}

\* the canonicalization of a field as the parse loop applies it
ApplyRule(r, value) ==
  CASE r = "tvg_id" -> clean_tvg_id(value)
    [] r = "name" -> CleanName(value)
    [] r = "group" -> CleanGroup(value)
    [] r = "cctv_name" -> clean_cctv_name(value, "channel_name")

InitCanon ==
  /\ RunIdle /\ ProcIdle /\ ProbeIdle /\ TaskIdle /\ SelectIdle
  /\ \/ \E ts \in TokenSeqs : raw = Concat(ts)
     \/ raw \in Samples
  /\ rule \in Rules
  /\ applied = FALSE /\ once = <<>> /\ twice = <<>>

Canonicalize ==
  /\ ~applied
  /\ applied' = TRUE
  /\ once' = ApplyRule(rule, raw)
  /\ twice' = ApplyRule(rule, ApplyRule(rule, raw))
  /\ UNCHANGED <<raw, rule, runVars, procVars, probeVars, taskVars, selVars>>

NextCanon == Canonicalize

SpecCanon == InitCanon /\ [][NextCanon]_vars

(***************************************************************************)
(* test_ip_download_speed and download_test on enumerated downloads        *)
(***************************************************************************)
\* the largest number of consecutive calls of the two download checks
MaxProbes == 2

\* seconds between the start of curl and its termination: the sleep, or the sleep
\* and a second spent on the termination
ProbeElapsed == {test_duration, test_duration + 1}

InitProbe ==
  /\ RunIdle /\ ProcIdle /\ CanonIdle /\ TaskIdle /\ SelectIdle
  /\ probe_file \in InitialTempFiles
  /\ calls = <<>>
  /\ dl_file \in InitialTempFiles
  /\ dl_calls = <<>>

\* one call of test_ip_download_speed: received is the number of bytes its own
\* download wrote, recognized whether those bytes pass the transport stream check
Probe ==
  /\ Len(calls) + Len(dl_calls) < MaxProbes
  /\ \E curl_ok \in BOOLEAN, download \in Downloads, elapsed \in ProbeElapsed :
       LET r == test_ip_download_speed(probe_file, curl_ok, download, elapsed)
       IN /\ probe_file' = r.temp_file
          /\ calls' = Append(calls,
               [before |-> probe_file,
                received |-> Received(curl_ok, download),
                recognized |-> curl_ok /\ is_valid_stream(download),
                elapsed |-> elapsed,
                success |-> r.success, speed_kb |-> r.speed_kb])
  /\ UNCHANGED <<dl_file, dl_calls, runVars, procVars, canonVars, taskVars, selVars>>

\* one call of download_test: received and recognized as for Probe, ts what the
\* call returned
DownloadTest ==
  /\ Len(calls) + Len(dl_calls) < MaxProbes
  /\ \E curl_ok \in BOOLEAN, download \in Downloads :
       LET r == download_test(dl_file, curl_ok, download)
       IN /\ dl_file' = r.temp_file
          /\ dl_calls' = Append(dl_calls,
               [before |-> dl_file,
                received |-> Received(curl_ok, download),
                recognized |-> curl_ok /\ is_valid_stream(download),
                ts |-> r.ts])
  /\ UNCHANGED <<probe_file, calls, runVars, procVars, canonVars, taskVars, selVars>>

NextProbe == Probe \/ DownloadTest

SpecProbe == InitProbe /\ [][NextProbe]_vars

(***************************************************************************)
(* The download process of test_ip_download_speed                          *)
(***************************************************************************)
\* the curl processes that have not ended: "running", or "killed" when SIGKILL has
\* been sent and the process has not ended yet
Alive(cs) == {k \in 1..Len(cs) : cs[k] \in {"running", "killed"}}

InitTask ==
  /\ RunIdle /\ ProcIdle /\ CanonIdle /\ ProbeIdle /\ SelectIdle
  /\ task_pc = "idle" /\ children = <<>> /\ reads = <<>>

\* the call up to the sleep: the curl check passes and subprocess.Popen(command)
\* starts the download; a run probes each candidate at most once
StartDownload ==
  /\ task_pc = "idle"
  /\ Len(children) < MaxCands
  /\ children' = Append(children, "running")
  /\ task_pc' = "sleep"
  /\ UNCHANGED <<reads, runVars, procVars, canonVars, probeVars, selVars>>

\* a curl process ends: by itself (an error, the end of the body, --max-time) or
\* by the SIGKILL that was sent to it
ChildEnds ==
  /\ \E k \in Alive(children) : children' = [children EXCEPT ![k] = "exited"]
  /\ UNCHANGED <<task_pc, reads, runVars, procVars, canonVars, probeVars, selVars>>

\* time.sleep(test_duration); process.terminate(); process.wait(timeout=2), and
\* process.kill() when the wait raises. in_grace: the process ends within the two
\* seconds and wait() returns; otherwise kill() sends SIGKILL and returns, and
\* nothing waits for the process.
TerminateAndWait ==
  /\ task_pc = "sleep"
  /\ \E in_grace \in BOOLEAN :
       children' = [children EXCEPT ![Len(children)] =
                      IF children[Len(children)] = "exited" \/ in_grace
                      THEN "exited" ELSE "killed"]
  /\ task_pc' = "check"
  /\ UNCHANGED <<reads, runVars, procVars, canonVars, probeVars, selVars>>

\* the check of the scratch file (exists, getsize, read, remove) and the return
CheckFile ==
  /\ task_pc = "check"
  /\ reads' = Append(reads, Alive(children))
  /\ task_pc' = "idle"
  /\ UNCHANGED <<children, runVars, procVars, canonVars, probeVars, selVars>>

NextTask ==
  \/ StartDownload
  \/ ChildEnds
  \/ TerminateAndWait
  \/ CheckFile

SpecTask == InitTask /\ [][NextTask]_vars

(***************************************************************************)
(* test_m3u_url_speed on enumerated playlists                              *)
(***************************************************************************)
\* identities of the playlists of a candidate: another channel, the reference
\* channel and its hyphenated spelling
IdsSelect == {<<65>>, CCTV5, CCTV_5}
\* what may follow a metadata line: an address, an empty line, no line
KindsSelect == {"url", "empty", "none"}

InitSelect ==
  /\ RunIdle /\ ProcIdle /\ CanonIdle /\ ProbeIdle /\ TaskIdle
  /\ \E items \in ItemSeqs(IdsSelect, KindsSelect) :
       candidate_content = ContentOf(EXTM3U, <<>>, items)
  /\ select_pc = "fetched"
  /\ select_result = [NoResult EXCEPT !.url = 1]
  /\ select_probes = <<>>

\* test_m3u_url_speed after the fetch: the extraction of the probe address, and the
\* record of the failure when there is none
SelectTestUrl ==
  /\ select_pc = "fetched"
  /\ IF ProbeTarget(candidate_content) = <<>>
     THEN /\ select_result' = [select_result EXCEPT !.error = "no_test_url"]
          /\ select_pc' = "done"
     ELSE /\ select_result' = [select_result EXCEPT
                                 !.test_url = ProbeTarget(candidate_content)]
          /\ select_pc' = "probe"
  /\ UNCHANGED <<candidate_content, select_probes, runVars, procVars, canonVars,
                 probeVars, taskVars>>

\* test_m3u_url_speed: test_ip_download_speed(test_url, test_duration=3) and the
\* record of its result
ProbeSelected ==
  /\ select_pc = "probe"
  /\ select_probes' = Append(select_probes, select_result.test_url)
  /\ \E curl_ok \in BOOLEAN, download \in Downloads, elapsed \in Elapsed :
       LET r == test_ip_download_speed(NoFile, curl_ok, download, elapsed)
       IN select_result' =
            IF r.success
            THEN [select_result EXCEPT !.success = TRUE, !.speed_kb = r.speed_kb]
            ELSE [select_result EXCEPT !.error = "probe_failed"]
  /\ select_pc' = "done"
  /\ UNCHANGED <<candidate_content, runVars, procVars, canonVars, probeVars, taskVars>>

NextSelect == SelectTestUrl \/ ProbeSelected

SpecSelect == InitSelect /\ [][NextSelect]_vars

(***************************************************************************)
(* Properties of the run                                                   *)
(***************************************************************************)
\* a winner has been selected
Selected == fastest_result # NoResult
\* the records of tested_results whose probe succeeded
SuccessIdx == {k \in 1..Len(tested_results) : tested_results[k].success}

\* C1: in speed-ranking mode the selected source is chosen after every candidate
\* has been evaluated, is a candidate whose probe succeeded, no successful candidate
\* has a greater throughput, and among the successful candidates of the same
\* throughput it is the one that comes first in the input list.
C1_FastestFirstInInputOrder ==
  Selected =>
    /\ idx > m3u_urls
    /\ \E k \in SuccessIdx : tested_results[k] = fastest_result
    /\ \A k \in SuccessIdx :
         /\ ~SpeedLess(fastest_result.speed_kb, tested_results[k].speed_kb)
         /\ SpeedEq(fastest_result.speed_kb, tested_results[k].speed_kb)
              => fastest_result.url <= tested_results[k].url

\* C1 witness: the first candidate succeeded with a smaller throughput, the second
\* and the third tie on the highest throughput, and the second is selected.
C1_Witness ==
  /\ Selected
  /\ fastest_result.url = 2
  /\ \E a, b \in SuccessIdx :
       /\ tested_results[a].url = 1
       /\ SpeedLess(tested_results[a].speed_kb, fastest_result.speed_kb)
       /\ tested_results[b].url = 3
       /\ SpeedEq(tested_results[b].speed_kb, fastest_result.speed_kb)

\* the run has ended after the evaluation of all candidates, none of which succeeded
NoProbeSucceeded ==
  /\ pc = "exit" /\ m3u_urls > 0 /\ idx > m3u_urls
  /\ SuccessIdx = {}

FatalFailures == {"no_candidates", "discovery_exception", "no_success", "final_fetch"}

\* C3: a run that ends for want of candidates, for want of a successful probe or by
\* an exception of the final fetch never opens the output playlist for writing; the
\* output is opened only after a winner was selected, its playlist fetched and
\* process_m3u_content returned.
C3_NoOutputOnFatalFailure ==
  /\ failure \in FatalFailures => ~output_file.opened
  /\ output_file.opened =>
       /\ Selected /\ fastest_result.success
       /\ final_m3u_content \in Playlists
       /\ processed_content = process_m3u_content(final_m3u_content)
       /\ fetch_log[Len(fetch_log)] = fastest_result.url

\* C3 witness: a winner was selected, its final fetch raised, and the run ended
\* with exit code 1 without the output having been opened.
C3_Witness ==
  /\ pc = "exit" /\ failure = "final_fetch" /\ exit_code = 1
  /\ Selected /\ ~output_file.opened

\* C4 as claimed: when the winner's playlist text yields no parsed entry the run
\* ends with a non-zero exit code and writes no output, and exit code zero after
\* a selection implies an output with at least one channel entry.
C4_Original ==
  (pc = "exit" /\ Selected) =>
    /\ (final_m3u_content # <<>> /\ ParseEntries(final_m3u_content) = <<>>)
         => (exit_code # 0 /\ ~output_file.written)
    /\ exit_code = 0 => CountSub(output_file.content, EXTINF) >= 1

\* the evaluation loop is over
LoopLeft ==
  \/ pc \in {"final_fetch", "process", "write"}
  \/ pc = "exit" /\ failure \notin {"no_candidates", "discovery_exception", "no_m3u_links"}

\* C5: a candidate whose fetch raises, that has no probe address or whose probe
\* fails does not end the evaluation loop: the candidates are fetched one after
\* the other in input order, the loop is left only after the last of them, and when
\* some probe succeeded a winner is selected.
C5_FailuresAreSkipped ==
  /\ pc = "loop" => fetch_log = [k \in 1..(idx - 1) |-> k]
  /\ pc = "probe" => fetch_log = [k \in 1..idx |-> k]
  /\ LoopLeft =>
       /\ idx = m3u_urls + 1
       /\ SubSeq(fetch_log, 1, m3u_urls) = [k \in 1..m3u_urls |-> k]
       /\ SuccessIdx # {} => (Selected /\ failure # "no_success")

\* C5 witness (Scenario C): of two candidates the first is probed and fails, the
\* second delivers a recognized transport stream, and the second is selected.
C5_Witness ==
  /\ script = "iptv-test" /\ m3u_urls = 2 /\ Len(tested_results) = 2
  /\ ~tested_results[1].success /\ tested_results[1].error = "probe_failed"
  /\ tested_results[2].success
  /\ tested_results[2].speed_kb = SpeedKb(376, test_duration)
  /\ fastest_result = tested_results[2]

\* C6 as claimed: a fetch failure, the final fetch of the winner's playlist included,
\* never ends the run as failed while another candidate with a successful probe
\* remains.
C6_Original ==
  (pc = "exit" /\ failure = "final_fetch") => Len(successful_results) <= 1

\* C14 as claimed: process_iptv.py tries the candidates in input order and stops
\* at the first accepted one: no candidate after an accepted candidate is probed,
\* and the playlist processed into the output is that of the first accepted candidate.
C14_Original ==
  script = "process_iptv" =>
    /\ \A k \in SuccessIdx : \A j \in 1..Len(probe_log) :
         probe_log[j] <= tested_results[k].url
    /\ Selected => \A k \in SuccessIdx : fastest_result.url <= tested_results[k].url

\* C26: in speed-ranking mode (iptv-test.py) the candidates are evaluated once
\* each in input order: the k-th record is that of candidate k, a candidate is
\* probed at most once and only after its fetch, so a failed probe is not repeated
\* and the probes never outnumber the candidates; a success does not end the loop,
\* which is left exactly when the last candidate has its record.
C26_EachCandidateOnce ==
  script = "iptv-test" =>
    /\ \A k \in 1..Len(tested_results) : tested_results[k].url = k
    /\ \A i, j \in 1..Len(probe_log) : i < j => probe_log[i] < probe_log[j]
    /\ \A i \in 1..Len(probe_log) :
         probe_log[i] \in 1..m3u_urls /\ probe_log[i] <= Len(fetch_log)
    /\ Len(probe_log) <= m3u_urls
    /\ \A k \in SuccessIdx : \E i \in 1..Len(probe_log) : probe_log[i] = k
    /\ pc = "loop" => (Len(tested_results) = idx - 1 /\ idx <= m3u_urls + 1)
    /\ pc = "probe" => (Len(tested_results) = idx - 1 /\ idx <= m3u_urls)
    /\ LoopLeft => (Len(tested_results) = m3u_urls /\ idx = m3u_urls + 1)

\* C26 witness: of three candidates the first was probed with success, the probe of
\* the second failed, the third was evaluated after them, and the loop has been left.
C26_Witness ==
  /\ script = "iptv-test" /\ m3u_urls = 3 /\ LoopLeft
  /\ Len(tested_results) = 3
  /\ tested_results[1].success
  /\ ~tested_results[2].success /\ tested_results[2].error = "probe_failed"
  /\ probe_log = <<1, 2, 3>>

\* the number of calls of fetch_m3u_content for the candidate k
FetchCount(k) == Cardinality({i \in 1..Len(fetch_log) : fetch_log[i] = k})

\* C30: the text that is processed and written comes from a fetch of the winner made
\* after the evaluation loop has ended: while the loop runs every candidate has been
\* fetched at most once and no text is held for processing; once a text is held, the
\* last fetch is that of the winner and follows one fetch of each candidate and all
\* probes, so the winner has been fetched twice and every other candidate once; what
\* is written is the processed text of that last fetch.
C30_SecondFetchOfWinner ==
  /\ pc \in {"loop", "probe"} =>
       /\ final_m3u_content = <<>>
       /\ \A k \in 1..m3u_urls : FetchCount(k) <= 1
  /\ final_m3u_content # <<>> =>
       /\ Selected /\ idx > m3u_urls
       /\ Len(fetch_log) = m3u_urls + 1
       /\ fetch_log[m3u_urls + 1] = fastest_result.url
       /\ \A k \in 1..m3u_urls :
            FetchCount(k) = IF k = fastest_result.url THEN 2 ELSE 1
       /\ \A i \in 1..Len(probe_log) : probe_log[i] <= m3u_urls
  /\ output_file.written =>
       /\ final_m3u_content # <<>>
       /\ output_file.content = process_m3u_content(final_m3u_content)

\* C30 witness: the winner of two candidates was measured on the address u5 of the
\* reference channel of the playlist fetched in the loop; the second fetch returned
\* a playlist without that channel, and its processed text was written.
C30_Witness ==
  /\ output_file.written /\ m3u_urls = 2
  /\ fastest_result.test_url = <<117, 53>>
  /\ final_m3u_content = PlaylistOther
  /\ ProbeTarget(final_m3u_content) # fastest_result.test_url
  /\ FetchCount(fastest_result.url) = 2

(***************************************************************************)
(* Properties of process_m3u_content                                       *)
(***************************************************************************)
\* the canonical identities of the parsed entries
EntryIds == {entries[k][1] : k \in 1..Len(entries)}
\* the position of the last parsed entry with the identity id
LastEntry(id) ==
  CHOOSE k \in 1..Len(entries) :
    /\ entries[k][1] = id
    /\ \A j \in 1..Len(entries) : entries[j][1] = id => j <= k

\* C7: the output holds exactly one entry for each canonical identity of the parsed
\* entries, and the entry of an identity is the normalized line and address of the
\* entry with that identity that was parsed last.
C7_OneEntryPerIdentityLastWins ==
  stage = "done" =>
    /\ {sorted_items[j][1] : j \in 1..Len(sorted_items)} = EntryIds
    /\ Len(sorted_items) = Cardinality(EntryIds)
    /\ \A j \in 1..Len(sorted_items) :
         sorted_items[j][2] = entries[LastEntry(sorted_items[j][1])][2]
    /\ CountSub(result, EXTINF) = Cardinality(EntryIds)
    /\ Len(entries) = Cardinality(EntryIds) + duplicate_count

\* C7 witness (Scenario A): "CCTV-1" with the high-definition marker, then "CCTV1";
\* the output is the single entry CCTV1 with the address of the second.
C7_Witness ==
  /\ stage = "done"
  /\ content = ContentOf(EXTM3U, <<>>, << <<<<67, 67, 84, 86, 45, 49, 39640, 28165>>, "url">>,
                                       <<<<67, 67, 84, 86, 49>>, "url">> >>)
  /\ Len(entries) = 2
  /\ Len(sorted_items) = 1
  /\ sorted_items[1][1] = <<67, 67, 84, 86, 49>>
  /\ EndsWith(sorted_items[1][2], <<10>> \o UrlAt(2))
  /\ EndsWith(result, <<10>> \o UrlAt(2))

\* the category of an identity as the claim C8 defines it: 0 for the family prefix
\* with at least one digit, 1 for the satellite suffix, 2 for everything else
ClaimedRank(id) ==
  IF StartsWith(id, CCTV) /\ \E i \in 1..Len(id) : id[i] \in Digits THEN 0
  ELSE IF EndsWith(id, WeiShi) \/ EndsWith(id, WeiShiTrad) THEN 1
  ELSE 2

\* C8 as claimed: in the output every numbered-family entry precedes every
\* satellite entry, and every satellite entry precedes every other entry, the
\* identities with the family prefix and no digit included.
C8_Original ==
  stage = "done" =>
    \A i, j \in 1..Len(sorted_items) :
      i < j => ClaimedRank(sorted_items[i][1]) <= ClaimedRank(sorted_items[j][1])

\* the positions of the metadata lines that are followed by a line that is no directive
PairedIdx(lines) ==
  {i \in 1..(Len(lines) - 1) :
     StartsWith(lines[i], EXTINF) /\ ~StartsWith(lines[i + 1], <<35>>)}

RECURSIVE Ascending(_)
\* the elements of a set of numbers in ascending order
Ascending(S) == IF S = {} THEN <<>> ELSE <<Min(S)>> \o Ascending(S \ {Min(S)})

\* C9 as claimed: the parsed entries are exactly, in order, the metadata lines that
\* are followed by a line that is no directive.
C9_Original ==
  stage = "done" =>
    LET lines == HeaderSplit(content).lines
        at == Ascending(PairedIdx(lines))
    IN entries = [k \in 1..Len(at) |-> MakeEntry(lines[at[k]], lines[at[k] + 1])]

\* an emitted entry (identity, line) is already normalized: parsing its metadata
\* line and its address line gives the entry back
Normalized(item) ==
  LET parts == Split(item[2], 10)
  IN Len(parts) = 2 /\ MakeEntry(parts[1], parts[2]) = item

\* C11 as claimed: when the emitted entries are already normalized (their identities
\* are distinct and in sorted order by construction), parsing the emitted text gives
\* the same entries again, none lost, the entries with an empty address line included.
C11_Original ==
  (stage = "done" /\ \A k \in 1..Len(sorted_items) : Normalized(sorted_items[k]))
    => ParseEntries(result) = sorted_items

\* the first line of the output, given what is taken as the first line of the input
ExpectedHeader(line) == IF StartsWith(line, EXTM3U) THEN line ELSE EXTM3U

\* C15 as claimed: the first line of the output is the first line of the input
\* verbatim when that line starts with the start directive, and the default line
\* otherwise.
C15_Original ==
  stage = "done" => Split(result, 10)[1] = ExpectedHeader(Split(content, 10)[1])

\* C15 as amended: the first line of the output is the first line of the input
\* stripped of its leading and trailing whitespace, verbatim, when that line starts
\* with the start directive, and the default line otherwise; the output begins with
\* the start directive, which occurs in it once, and the rest of the output is two
\* lines for each emitted entry, so the header line is no entry.
C15_HeaderOfStrippedInput ==
  stage = "done" =>
    /\ Split(result, 10)[1] = ExpectedHeader(Split(Strip(content), 10)[1])
    /\ StartsWith(result, EXTM3U)
    /\ CountSub(result, EXTM3U) = 1
    /\ Len(Split(result, 10)) = 1 + 2 * Len(sorted_items)
    /\ CountSub(result, EXTINF) = Len(sorted_items)

\* C15 witness: the input begins with an empty line followed by a start line that
\* carries an attribute; the output begins with that start line and holds an entry.
C15_Witness ==
  /\ stage = "done"
  /\ StartsWith(content, HeaderAfterBlank)
  /\ Split(result, 10)[1] = HeaderAttr
  /\ Len(sorted_items) >= 1

\* an identity of the family with a parsable channel number, and one without
NumberedFamily(id) == StartsWith(id, CCTV) /\ CctvNumberSearch(id) # <<>>
UnnumberedFamily(id) == StartsWith(id, CCTV) /\ CctvNumberSearch(id) = <<>>

\* C16 as claimed: in the output an entry of the family without a parsable channel
\* number never comes before a numbered family entry.
C16_Original ==
  stage = "done" =>
    \A i, j \in 1..Len(sorted_items) :
      (UnnumberedFamily(sorted_items[i][1]) /\ NumberedFamily(sorted_items[j][1]))
        => j < i

\* the channel number of a numbered family identity, as an integer
ChannelNumber(id) == ParseInt(CctvNumberSearch(id))

\* C17: among the numbered family entries the output order is by channel number as
\* an integer, ascending, and entries with the same number are in the lexicographic
\* order of their identities.
C17_NumberThenIdentity ==
  stage = "done" =>
    \A i, j \in 1..Len(sorted_items) :
      LET a == sorted_items[i][1]
          b == sorted_items[j][1]
      IN (i < j /\ NumberedFamily(a) /\ NumberedFamily(b))
           => \/ ChannelNumber(a) < ChannelNumber(b)
              \/ ChannelNumber(a) = ChannelNumber(b) /\ StrLess(a, b)

\* C17 witness: the input lists CCTV10, CCTV5 with a preserved suffix and CCTV5 with
\* the plus marker; the output lists the plus marker first, then the preserved
\* suffix, then CCTV10.
C17_Witness ==
  /\ stage = "done"
  /\ Len(entries) = 3
  /\ entries[1][1] = <<67, 67, 84, 86, 49, 48>> /\ entries[2][1] = <<67, 67, 84, 86, 53, 45, 20307, 32946>> /\ entries[3][1] = <<67, 67, 84, 86, 53, 43>>
  /\ [k \in 1..Len(sorted_items) |-> sorted_items[k][1]] = <<<<67, 67, 84, 86, 53, 43>>, <<67, 67, 84, 86, 53, 45, 20307, 32946>>, <<67, 67, 84, 86, 49, 48>>>>

\* the metadata line of an emitted entry
EmittedMeta(item) == Split(item[2], 10)[1]
\* the logo references the input carries on the metadata lines whose identity
\* canonicalizes to id
InputLogos(id) ==
  LET lines == ContentLines(content)
  IN {AttrValue(lines[i], TVG_LOGO_ATTR) :
        i \in {n \in 1..Len(lines) :
                 /\ StartsWith(lines[n], EXTINF)
                 /\ clean_tvg_id(AttrValue(lines[n], TVG_ID_ATTR)) = id}}

\* C20 as claimed: the logo reference of an emitted entry with a non-empty canonical
\* identity is the base URL, the identity written as tvg-id in the same line, and
\* ".png", whatever logo the input carried; with an empty identity the logo of the
\* input is kept.
C20_Original ==
  stage = "done" =>
    \A k \in 1..Len(sorted_items) :
      LET id == sorted_items[k][1]
          meta == EmittedMeta(sorted_items[k])
          logo == AttrValue(meta, TVG_LOGO_ATTR)
      IN /\ AttrValue(meta, TVG_ID_ATTR) = id
         /\ id # <<>> => logo = base_url \o id \o DotPng
         /\ id = <<>> => logo \in InputLogos(id)

\* the text between the base URL and ".png" of a reconstructed logo reference
LogoIdentityPart(logo) == SubSeq(logo, Len(base_url) + 1, Len(logo) - Len(DotPng))

\* C21 as claimed: the identity part of a reconstructed logo reference (between the
\* base URL and ".png") holds none of the characters < > : " / \ | ? *, whatever the
\* input identity was.
C21_Original ==
  stage = "done" =>
    \A k \in 1..Len(sorted_items) :
      LET logo == AttrValue(EmittedMeta(sorted_items[k]), TVG_LOGO_ATTR)
      IN (sorted_items[k][1] # <<>> /\ StartsWith(logo, base_url) /\ EndsWith(logo, DotPng))
           => \A i \in 1..Len(LogoIdentityPart(logo)) :
                LogoIdentityPart(logo)[i] \notin UnsafeChars

\* a playlist text made of a start line and entries, each a metadata line and the
\* line after it, which is no directive
EntryLines(text) == Tail(Split(text, 10))
IsEntryList(text) ==
  LET lines == Split(text, 10)
  IN /\ StartsWith(lines[1], EXTM3U)
     /\ (Len(lines) - 1) % 2 = 0
     /\ \A k \in 1..((Len(lines) - 1) \div 2) :
          /\ StartsWith(lines[2 * k], EXTINF)
          /\ ~StartsWith(lines[2 * k + 1], <<35>>)
\* the number of entries of such a text and the canonical identity of its k-th entry
EntryCount(text) == Len(EntryLines(text)) \div 2
EntryIdentity(text, k) == clean_tvg_id(AttrValue(EntryLines(text)[2 * k - 1], TVG_ID_ATTR))
\* the text with its entries in the order f, a permutation of their positions
Reordered(text, f) ==
  Join(<<Split(text, 10)[1]>>
       \o [j \in 1..(2 * EntryCount(text)) |->
             EntryLines(text)[2 * f[(j + 1) \div 2] - (j % 2)]], <<10>>)

\* C28 as claimed: when the canonical identities of the entries of the input are
\* pairwise distinct, the input with its entries in any other order gives the same
\* output text.
C28_Original ==
  ( /\ stage = "done"
    /\ IsEntryList(content)
    /\ \A i, j \in 1..EntryCount(content) :
         EntryIdentity(content, i) = EntryIdentity(content, j) => i = j )
    => \A f \in Permutations(1..EntryCount(content)) :
         process_m3u_content(Reordered(content, f)) = result

\* the positions of the parsed entries and of the emitted entries with the empty
\* canonical identity
AnonymousEntries == {k \in 1..Len(entries) : entries[k][1] = <<>>}
AnonymousItems == {j \in 1..Len(sorted_items) : sorted_items[j][1] = <<>>}

\* C29: an entry parsed from a metadata line whose tvg-id is absent or empty has
\* the canonical identity ""; of all such entries the output holds one, the last
\* parsed, and none when there is no such entry; the number of emitted entries is
\* the number of distinct canonical identities, which is the number of parsed
\* entries less the duplicate count.
C29_EmptyIdentityIsOne ==
  stage = "done" =>
    LET lines == HeaderSplit(content).lines
    IN /\ \A i \in PairedIdx(lines) :
            AttrValue(lines[i], TVG_ID_ATTR) = <<>>
              => MakeEntry(lines[i], lines[i + 1])[1] = <<>>
       /\ AnonymousEntries = {} => AnonymousItems = {}
       /\ AnonymousEntries # {} =>
            /\ Cardinality(AnonymousItems) = 1
            /\ \A j \in AnonymousItems :
                 sorted_items[j][2] = entries[LastEntry(<<>>)][2]
       /\ Len(sorted_items) = Cardinality(EntryIds)
       /\ Len(sorted_items) = Len(entries) - duplicate_count

\* C29 witness: an entry without tvg-id, an entry "A" and an entry with an empty
\* tvg-id, in this order; the output holds "A" and one entry of the empty identity,
\* with the address of the third, and one duplicate is counted.
C29_Witness ==
  /\ stage = "done"
  /\ content = ContentOf(EXTM3U, <<>>,
       << <<NoTvgId, "url">>, <<<<65>>, "url">>, <<<<>>, "url">> >>)
  /\ Len(entries) = 3 /\ Cardinality(AnonymousEntries) = 2
  /\ Len(sorted_items) = 2 /\ duplicate_count = 1
  /\ \E j \in AnonymousItems : EndsWith(sorted_items[j][2], <<10>> \o UrlAt(3))

(***************************************************************************)
(* Properties of test_ip_download_speed                                    *)
(***************************************************************************)
\* C12 as claimed: a call whose own download receives no bytes returns
\* success = false, whatever the scratch file held when the call started and
\* whatever calls ran before; success = true is returned only when the call's
\* download received bytes.
C12_Original ==
  \A k \in 1..Len(calls) : calls[k].success => calls[k].received > 0

\* the result record the evaluation loop keeps for a call
ResultOf(call, url) ==
  [url |-> url, success |-> call.success, speed_kb |-> call.speed_kb,
   test_url |-> <<>>, error |-> "none"]

\* C13: a call whose download receives N > 0 bytes in T seconds reports success,
\* with the throughput N / T (in KB/s: N / (1024 T)) when the bytes are a recognized
\* transport stream and exactly half of it when they are not; of two such calls with
\* the same N and T the recognized one is ranked first, whichever was evaluated first.
C13_ProbePenalty ==
  \A k \in 1..Len(calls) :
    LET c == calls[k]
    IN c.received > 0 =>
         /\ c.success
         /\ c.recognized
              => c.speed_kb.num * (c.elapsed * 1024) = c.received * c.speed_kb.den
         /\ ~c.recognized
              => 2 * c.speed_kb.num * (c.elapsed * 1024) = c.received * c.speed_kb.den
         /\ \A j \in 1..Len(calls) :
              ( /\ calls[j].received = c.received /\ calls[j].elapsed = c.elapsed
                /\ c.recognized /\ ~calls[j].recognized )
                => /\ SortBySpeedDesc(<<ResultOf(calls[j], 1), ResultOf(c, 2)>>)[1].url = 2
                   /\ SortBySpeedDesc(<<ResultOf(c, 1), ResultOf(calls[j], 2)>>)[1].url = 1

\* C13 witness: two calls received the same number of bytes in the same time, the
\* first not recognized and the second recognized; both succeeded.
C13_Witness ==
  /\ Len(calls) = 2
  /\ calls[1].received = 376 /\ calls[2].received = 376
  /\ calls[1].elapsed = calls[2].elapsed
  /\ ~calls[1].recognized /\ calls[2].recognized
  /\ calls[1].success /\ calls[2].success
  /\ SpeedLess(calls[1].speed_kb, calls[2].speed_kb)

\* C23 as claimed: in both time-boxed download checks the downloaded bytes count as
\* a recognized transport stream exactly when at least 188 bytes were received and
\* the first byte is 0x47: what download_test returns for received bytes is what the
\* check of test_ip_download_speed says of the same bytes.
C23_Original ==
  \A k \in 1..Len(dl_calls) :
    dl_calls[k].received > 0 => (dl_calls[k].ts <=> dl_calls[k].recognized)

\* C24 as claimed: after every call of the probe has returned its scratch file does
\* not exist, so every call after the first starts without a scratch file.
C24_Original ==
  /\ calls # <<>> => ~probe_file.exists
  /\ \A k \in 2..Len(calls) : ~calls[k].before.exists

(***************************************************************************)
(* Properties of the canonicalization rules                                *)
(***************************************************************************)
\* C10 as claimed: each rule (identity, display name, group label) applied twice
\* gives what it gives applied once.
C10_Original == (applied /\ rule \in FieldRules) => twice = once


\* the preserved suffixes, by list position, that a trimmed suffix ends with or
\* contains after a hyphen
PreservedAt(sfx) ==
  {k \in 1..Len(preserve_suffixes) :
     EndsWith(sfx, preserve_suffixes[k]) \/ Contains(sfx, <<45>> \o preserve_suffixes[k])}

\* C18: a value that, the high-definition marker removed, matches the prefix, an
\* optional hyphen or space, digits and a suffix is returned by clean_cctv_name as
\* CCTV<digits>+ when the trimmed suffix ends in a plus marker, otherwise as
\* CCTV<digits>-<s> for the first preserved suffix s of the list that the suffix ends
\* with or contains hyphen-joined, otherwise as CCTV<digits>; a value that does not
\* match is returned with only the marker removed.
C18_ThreeForms ==
  (applied /\ rule = "cctv_name") =>
    LET c == Replace(raw, GaoQing, <<>>)
        m == CctvMatch(c)
        sfx == Strip(m.suffix)
        plus == sfx # <<>> /\ sfx[Len(sfx)] \in {43, 65291}
        P == PreservedAt(sfx)
    IN IF ~m.ok THEN once = c
       ELSE IF plus THEN once = CCTV \o m.num \o <<43>>
       ELSE IF P # {} THEN once = CCTV \o m.num \o <<45>> \o preserve_suffixes[Min(P)]
       ELSE once = CCTV \o m.num

\* C18 witness: "CCTV5-" followed by the first and then the second preserved suffix
\* of the list gives "CCTV5-" and the first, although the value ends with the second.
C18_Witness ==
  /\ applied /\ rule = "cctv_name"
  /\ raw = <<67, 67, 84, 86, 53, 45, 26032, 38395, 20307, 32946>>
  /\ once = <<67, 67, 84, 86, 53, 45, 26032, 38395>>

\* a resolution-tier marker, "4K" or "8K", occurs in s
HasTierMarker(s) == Contains(s, <<52, 75>>) \/ Contains(s, <<56, 75>>)

\* C19 as claimed: the canonical display name of a numbered family channel whose
\* raw display name holds a resolution-tier marker still holds the marker.
C19_Original ==
  (applied /\ rule = "name" /\ CctvMatch(raw).ok /\ HasTierMarker(raw))
    => HasTierMarker(once)

RECURSIVE SpellCorrectly(_)
\* s with every occurrence of the transposed prefix, in any letter case, spelled
\* CCTV and every other character unchanged
SpellCorrectly(s) ==
  IF Len(s) < Len(CCVT) THEN s
  ELSE IF Upper(SubSeq(s, 1, Len(CCVT))) = CCVT
       THEN CCTV \o SpellCorrectly(From(s, Len(CCVT) + 1))
  ELSE <<s[1]>> \o SpellCorrectly(Tail(s))

\* C22 as claimed: the canonical form of an identity or display name that holds the
\* transposed prefix (in any letter case) is the canonical form of the same value
\* with the prefix spelled correctly and all other characters unchanged.
C22_Original ==
  (applied /\ rule \in {"tvg_id", "name"} /\ Contains(Upper(raw), CCVT))
    => once = ApplyRule(rule, SpellCorrectly(raw))

(***************************************************************************)
(* Properties of the download process                                      *)
(***************************************************************************)
\* C25 as claimed: at most one download process is alive at any moment; the process
\* a probe started has ended before the probe reads the scratch file and before
\* the next probe starts its download.
C25_Original ==
  /\ Cardinality(Alive(children)) <= 1
  /\ \A k \in 1..Len(reads) : reads[k] = {}

(***************************************************************************)
(* Properties of the probe-channel selection                               *)
(***************************************************************************)
\* of the lines of a playlist, the positions of the metadata lines that hold the
\* name of the reference channel and are followed by a line that is no directive
ReferenceIdx(lines) ==
  {i \in PairedIdx(lines) : Contains(Upper(lines[i]), CCTV5) \/ Contains(lines[i], CCTV_5)}
\* the address line, stripped, of the first line of a non-empty set of positions
AddressOfFirst(lines, I) == Strip(lines[Min(I) + 1])

\* C27 as claimed: a probe is made with the address of the first reference line that
\* is followed by a non-directive line; only when there is no such line, with the
\* address of the first metadata line followed by a non-directive line; when there
\* is neither, the candidate is recorded as failed and no probe is started.
C27_Original ==
  select_pc = "done" =>
    LET lines == ContentLines(candidate_content)
        ref == ReferenceIdx(lines)
        chan == PairedIdx(lines)
    IN /\ (select_probes # <<>> /\ ref # {})
            => select_probes = <<AddressOfFirst(lines, ref)>>
       /\ (select_probes # <<>> /\ ref = {})
            => select_probes = <<AddressOfFirst(lines, chan)>>
       /\ chan = {} => (select_probes = <<>> /\ ~select_result.success)

\* the address the amended statement selects in the lines of a playlist, <<>> when
\* it selects none
SelectedAddress(lines) ==
  LET ref == ReferenceIdx(lines)
      chan == PairedIdx(lines)
  IN IF ref # {} /\ AddressOfFirst(lines, ref) # <<>> THEN AddressOfFirst(lines, ref)
     ELSE IF chan # {} THEN AddressOfFirst(lines, chan)
     ELSE <<>>

\* C27 as amended: the address of the first reference line (a metadata line that
\* holds CCTV5 in any letter case, or CCTV-5, and is followed by a non-directive
\* line) is probed when it is not empty; when there is no such line or its address
\* is empty, the address of the first metadata line followed by a non-directive
\* line is probed; when that address is empty too or there is no such line, the
\* candidate is recorded as failed and no probe is started. There is at most one
\* probe.
C27_ReferenceThenFirstNonEmpty ==
  select_pc \in {"probe", "done"} =>
    LET selected == SelectedAddress(ContentLines(candidate_content))
    IN /\ select_pc = "probe" => select_result.test_url = selected
       /\ (select_pc = "done" /\ selected # <<>>)
            => (select_probes = <<selected>> /\ select_result.test_url = selected)
       /\ (select_pc = "done" /\ selected = <<>>)
            => /\ select_probes = <<>>
               /\ ~select_result.success
               /\ select_result.error = "no_test_url"

\* C27 witness: the playlist lists another channel with the address u1 and then the
\* reference channel followed by an empty line and a further channel; the probe is
\* made with u1.
C27_Witness ==
  /\ select_pc = "done"
  /\ candidate_content = ContentOf(EXTM3U, <<>>,
       << <<<<65>>, "url">>, <<CCTV5, "empty">>, <<<<65>>, "url">> >>)
  /\ ReferenceIdx(ContentLines(candidate_content)) # {}
  /\ select_probes = <<UrlAt(1)>>

====
